---- MODULE Spec2Model ----
(***************************************************************************)
(* A model of tiny_cc: the symbol table (environment.rs), the code         *)
(* generator (compiler.rs), the scanner (lexer.rs) and the parser          *)
(* (parser.rs).  Each component has its own specification over the shared  *)
(* variables; the variables of the other components stay at their idle     *)
(* values.                                                                 *)
(***************************************************************************)
EXTENDS Integers, Sequences, FiniteSets, TLC

VARIABLES
    table,       \* SymbolTable.table: name -> offset (a function on the names present)
    st_order,    \* history: the names in order of their successful insertion
    st_call,     \* the last SymbolTable call made by the caller: [op, name, ret]
    program,     \* the syntax tree handed to Compiler::compile
    intermedia,  \* Compiler.intermedia: the instruction lines
    emit_loc,    \* Compiler.emit_loc
    tmp_offset,  \* Compiler.tmp_offset
    kstack,      \* the activations of Compiler::compile, innermost first
    cstatus,     \* "idle", "run", "done" (compile returned) or "panic"
    tm_code,     \* target machine: the instruction memory
    tm_reg,      \* target machine: the registers
    tm_in,       \* target machine: the operator and the operand values of the run
    tm_status,   \* "idle", "run" or "halt" (control has left the tail)
    lx_input,    \* Lexer.input: the characters left by remove_comment
    lx_pos,      \* Lexer.pos
    lx_build,    \* "debug" (overflow checks on) or "release" (wrapping)
    lx_tok,      \* the token the last call of Lexer::next_token returned
    lx_calls,    \* history: the number of calls of Lexer::next_token made
    lx_status,   \* "idle", "run", "panic" or "hang" (a call does not return)
    pk,          \* Parser.peek
    pstack,      \* the activations of the parse functions, innermost first
    pret,        \* the value the last parse function returned
    pstatus      \* "idle", "run", "done" (parse_program returned), "panic" or "hang"

symVars == <<table, st_order, st_call>>
compVars == <<program, intermedia, emit_loc, tmp_offset, kstack, cstatus>>
tmVars == <<tm_code, tm_reg, tm_in, tm_status>>
lexVars == <<lx_input, lx_pos, lx_build, lx_tok, lx_calls, lx_status>>
parVars == <<pk, pstack, pret, pstatus>>

vars == <<symVars, compVars, tmVars, lexVars, parVars>>

(***************************************************************************)
(* Symbol table                                                            *)
(***************************************************************************)
Names == {"x", "y", "z", "fact"}

NoCall == [op |-> "none", name |-> "", ret |-> 0]

\* SymbolTable::new
EmptyTable == [n \in {} |-> 0]

\* SymbolTable::look_up: the offset of name, -1 when it is absent
look_up(t, name) == IF name \in DOMAIN t THEN t[name] ELSE -1

\* the value SymbolTable::insert returns
insert_ret(t, name) ==
    IF name \in DOMAIN t THEN -1 ELSE Cardinality(DOMAIN t)

insert_table_overwrite(t, name) ==
    [n \in DOMAIN t \cup {name} |->
        IF n = name THEN Cardinality(DOMAIN t) ELSE t[n]]

insert_table_from_one(t, name) ==
    IF name \in DOMAIN t
    THEN t
    ELSE [n \in DOMAIN t \cup {name} |->
            IF n = name THEN Cardinality(DOMAIN t) + 1 ELSE t[n]]

\* the table SymbolTable::insert leaves
insert_table(t, name) ==
    IF name \in DOMAIN t
    THEN t
    ELSE [n \in DOMAIN t \cup {name} |->
            IF n = name THEN Cardinality(DOMAIN t) ELSE t[n]]

\* the insertion history after an insert
insert_order(t, order, name) ==
    IF name \in DOMAIN t THEN order ELSE Append(order, name)

(***************************************************************************)
(* Syntax trees (ast.rs).  A node is a record tagged with its NodeType.    *)
(***************************************************************************)
Number(v) == [t |-> "Number", value |-> v]
Identifier(n) == [t |-> "Identifier", value |-> n]
InfixExpression(op, l, r) == [t |-> "InfixExpression", op |-> op, left |-> l, right |-> r]
ReadStatement(n) == [t |-> "ReadStatement", name |-> Identifier(n)]
WriteStatement(n) == [t |-> "WriteStatement", name |-> Identifier(n)]
AssignStatement(n, e) == [t |-> "AssignStatement", name |-> Identifier(n), value |-> e]
BlockStatement(ss) == [t |-> "BlockStatement", statements |-> ss]
IfStatement(c, ss) == [t |-> "IfStatement", cond |-> c, consequence |-> BlockStatement(ss)]
RepeatStatement(c, ss) == [t |-> "RepeatStatement", cond |-> c, consequence |-> BlockStatement(ss)]
Program(ss) == [t |-> "Program", statements |-> ss]

\* the bounds of the trees handed to compile
MaxNum == 1
MaxStmts == 2
MaxBlock == 2
MaxNest == 2

SeqsUpTo(S, n) == UNION {[1..k -> S] : k \in 0..n}

\* the token types the parser can leave as the operator of an Infix node: the six
\* the generator translates and one (<=) it does not
ArithOps == {"Add", "Minus", "Mul", "Divide"}
RelOps == {"LessThan", "Equal"}
InfixOps == ArithOps \cup RelOps \cup {"EqualLessThan"}

Atoms == {Number(v) : v \in 0..MaxNum} \cup {Identifier(n) : n \in {"x", "y"}}
FlatInfix == {InfixExpression(op, l, r) : op \in InfixOps, l \in Atoms, r \in Atoms}

\* Infix nodes nested in the right operand, and in the left operand, to depth d
NestOps == {"Add", "LessThan"}
NestAtoms == {Number(0), Identifier("x")}
RECURSIVE RightNest(_)
RightNest(d) ==
    IF d = 0 THEN NestAtoms
    ELSE {InfixExpression(op, l, r) : op \in NestOps, l \in NestAtoms, r \in RightNest(d - 1)}
RECURSIVE LeftNest(_)
LeftNest(d) ==
    IF d = 0 THEN NestAtoms
    ELSE {InfixExpression(op, l, r) : op \in NestOps, l \in LeftNest(d - 1), r \in NestAtoms}
NestedInfix ==
    UNION {RightNest(d) \cup LeftNest(d) : d \in 2..(MaxNest + 1)}
        \cup {InfixExpression("Add", l, r) : l, r \in RightNest(1)}

Exprs == Atoms \cup FlatInfix \cup NestedInfix

SimpleStmts ==
    { ReadStatement("x"), ReadStatement("y"), WriteStatement("x"),
      AssignStatement("y", Number(1)),
      AssignStatement("x", InfixExpression("Add", Identifier("x"), Identifier("y"))) }
RepeatStmts ==
    { RepeatStatement(InfixExpression("Equal", Identifier("x"), Number(0)),
                      <<AssignStatement("x", InfixExpression("Minus", Identifier("x"), Number(1)))>>),
      RepeatStatement(InfixExpression("Equal", Identifier("x"), Number(0)),
                      <<ReadStatement("x")>>) }
BlockSimple ==
    { AssignStatement("y", Number(1)), WriteStatement("x") } \cup RepeatStmts
Conds ==
    { Identifier("x"),
      InfixExpression("LessThan", Number(0), Identifier("x")),
      InfixExpression("Equal", Identifier("x"), Identifier("y")) }

\* if statements without an inner if, and chains of nested ifs to depth d
FlatIfs == {IfStatement(c, b) : c \in Conds, b \in SeqsUpTo(BlockSimple, MaxBlock)}
Around == {<<>>, <<AssignStatement("y", Number(1))>>}
RECURSIVE IfChain(_)
IfChain(d) ==
    IF d = 1
    THEN {IfStatement(c, b) : c \in Conds, b \in Around}
    ELSE {IfStatement(c, pre \o <<i>> \o post) :
            c \in Conds, pre \in Around, post \in Around, i \in IfChain(d - 1)}
Ifs == FlatIfs \cup UNION {IfChain(d) : d \in 2..MaxNest}

\* `if 0 < x then y := 1; end` (scenario 4 of the specification)
Scenario4 ==
    Program(<<IfStatement(InfixExpression("LessThan", Number(0), Identifier("x")),
                          <<AssignStatement("y", Number(1))>>)>>)

Programs ==
    {Program(<<AssignStatement("x", e)>>) : e \in Exprs}
        \cup {Program(ss) : ss \in SeqsUpTo(SimpleStmts \cup RepeatStmts, MaxStmts)}
        \cup {Program(pre \o <<i>> \o post) :
                pre \in {<<>>, <<ReadStatement("x")>>},
                i \in Ifs,
                post \in {<<>>, <<WriteStatement("x")>>}}
        \cup {Scenario4}

(***************************************************************************)
(* Registers and instruction lines (code.rs, compiler.rs)                  *)
(***************************************************************************)
AC == 0
AC1 == 1
GP == 5
MP == 6
PC == 7

\* `x as usize` of an i32: x itself when x >= 0, and usize::MAX + 1 + x when
\* x < 0.  usize::MAX + 1 is 2^64 (2^32 on a 32-bit target), which no TLC
\* integer holds: the usize of the model is UsizeBits wide, which keeps what the
\* cast does to a negative value (it becomes a large positive one).
UsizeBits == 30
AsUsize(x) == x % (2^UsizeBits)

\* One line of the listing: the address label, the format ("rm" for
\* target,offset(base), "r0" for target,first,second, "abs" for the line of
\* emit_rm_abs, "empty" for the "" that emit_skip pushes) and the operands.
Line(addr, kind, op, a, b, c) ==
    [addr |-> addr, kind |-> kind, op |-> op, a |-> a, b |-> b, c |-> c]
EmptyLine == Line(-1, "empty", "", 0, 0, 0)

\* the buffer and the cursor, as the emit functions read and write them
Buf(lines, loc) == [intermedia |-> lines, emit_loc |-> loc]

emit_code_always_push(b, code) == Buf(Append(b.intermedia, code), b.emit_loc + 1)

\* Compiler::emit_code
emit_code(b, code) ==
    Buf(IF b.emit_loc = Len(b.intermedia)
        THEN Append(b.intermedia, code)
        ELSE [b.intermedia EXCEPT ![b.emit_loc + 1] = code],
        b.emit_loc + 1)

\* Compiler::emit_rm
emit_rm(b, op, target, offset, base) ==
    emit_code(b, Line(Len(b.intermedia), "rm", op, target, offset, base))

emit_r0_label_next(b, op, target, first, second) ==
    emit_code(b, Line(Len(b.intermedia) + 1, "r0", op, target, first, second))

\* Compiler::emit_r0
emit_r0(b, op, target, first, second) ==
    emit_code(b, Line(Len(b.intermedia), "r0", op, target, first, second))

RECURSIVE PushEmpty(_, _)
PushEmpty(lines, skip) ==
    IF skip = 0 THEN lines ELSE PushEmpty(Append(lines, EmptyLine), skip - 1)

\* Compiler::emit_skip: the buffer it leaves, and the address it returns
emit_skip(b, skip) == Buf(PushEmpty(b.intermedia, skip), b.emit_loc + skip)
emit_skip_ret(b) == Len(b.intermedia)

emit_backup_next(b, loc) == Buf(b.intermedia, loc + 1)

\* Compiler::emit_backup
emit_backup(b, loc) == Buf(b.intermedia, loc)

emit_restore_forgotten(b) == b

\* Compiler::emit_restore
emit_restore(b) == Buf(b.intermedia, Len(b.intermedia))

emit_rm_abs_from_slot(b, op, target, absolute) ==
    emit_code(b, Line(b.emit_loc, "abs", op, target, absolute - b.emit_loc, PC))

\* Compiler::emit_rm_abs
emit_rm_abs(b, op, target, absolute) ==
    emit_code(b, Line(b.emit_loc, "abs", op, target, absolute - (b.emit_loc + 1), PC))

InfixTail_short_jump(op) ==
    CASE op \in {"Add", "Minus", "Mul", "Divide"} -> <<Line(0, "r0", "ADD", AC, AC1, AC)>>
      [] op \in {"LessThan", "Equal"} ->
            << Line(0, "r0", "SUB", AC, AC1, AC),
               Line(0, "rm", IF op = "LessThan" THEN "JLT" ELSE "JEQ", AC, 1, PC),
               Line(0, "rm", "LDC", AC, 0, AC),
               Line(0, "rm", "LDA", PC, 1, PC),
               Line(0, "rm", "LDC", AC, 1, AC) >>
      [] OTHER -> <<>>

\* The instructions compile emits for the operator of an Infix node, after the
\* reload of the left operand: <<>> stands for the panic of an operator that is
\* not an infix operator.
InfixTail(op) ==
    CASE op = "Add" -> <<Line(0, "r0", "ADD", AC, AC1, AC)>>
      [] op = "Minus" -> <<Line(0, "r0", "SUB", AC, AC1, AC)>>
      [] op = "Mul" -> <<Line(0, "r0", "MUL", AC, AC1, AC)>>
      [] op = "Divide" -> <<Line(0, "r0", "DIV", AC, AC1, AC)>>
      [] op = "LessThan" ->
            << Line(0, "r0", "SUB", AC, AC1, AC),
               Line(0, "rm", "JLT", AC, 2, PC),
               Line(0, "rm", "LDC", AC, 0, AC),
               Line(0, "rm", "LDA", PC, 1, PC),
               Line(0, "rm", "LDC", AC, 1, AC) >>
      [] op = "Equal" ->
            << Line(0, "r0", "SUB", AC, AC1, AC),
               Line(0, "rm", "JEQ", AC, 2, PC),
               Line(0, "rm", "LDC", AC, 0, AC),
               Line(0, "rm", "LDA", PC, 1, PC),
               Line(0, "rm", "LDC", AC, 1, AC) >>
      [] OTHER -> <<>>

\* the emit_r0 and emit_rm calls of a tail, made in order
RECURSIVE EmitAll(_, _)
EmitAll(b, tail) ==
    IF tail = <<>> THEN b
    ELSE LET i == Head(tail)
         IN EmitAll(IF i.kind = "r0"
                    THEN emit_r0(b, i.op, i.a, i.b, i.c)
                    ELSE emit_rm(b, i.op, i.a, i.b, i.c),
                    Tail(tail))

CompIdle ==
    /\ program = [t |-> "Program", statements |-> <<>>]
    /\ intermedia = <<>>
    /\ emit_loc = 0
    /\ tmp_offset = 0
    /\ kstack = <<>>
    /\ cstatus = "idle"

SymIdle ==
    /\ table = EmptyTable
    /\ st_order = <<>>
    /\ st_call = NoCall

TmIdle ==
    /\ tm_code = <<>>
    /\ tm_reg = [r \in {} |-> 0]
    /\ tm_in = [op |-> "", left |-> 0, right |-> 0, base |-> 0]
    /\ tm_status = "idle"

NoToken == [token_type |-> "", literal |-> <<>>]

LexIdle ==
    /\ lx_input = <<>>
    /\ lx_pos = -1
    /\ lx_build = "release"
    /\ lx_tok = NoToken
    /\ lx_calls = 0
    /\ lx_status = "idle"

ParIdle ==
    /\ pk = NoToken
    /\ pstack = <<>>
    /\ pret = <<>>
    /\ pstatus = "idle"

InitSym ==
    /\ table = EmptyTable
    /\ st_order = <<>>
    /\ st_call = NoCall
    /\ CompIdle
    /\ TmIdle
    /\ LexIdle
    /\ ParIdle

LookUp(name) ==
    /\ st_call' = [op |-> "look_up", name |-> name, ret |-> look_up(table, name)]
    /\ UNCHANGED <<table, st_order>>
    /\ UNCHANGED <<compVars, tmVars, lexVars, parVars>>

Insert(name) ==
    /\ st_call' = [op |-> "insert", name |-> name, ret |-> insert_ret(table, name)]
    /\ table' = insert_table(table, name)
    /\ st_order' = insert_order(table, st_order, name)
    /\ UNCHANGED <<compVars, tmVars, lexVars, parVars>>

NextSym ==
    \/ \E name \in Names : LookUp(name)
    \/ \E name \in Names : Insert(name)

SpecSym == InitSym /\ [][NextSym]_vars

(***************************************************************************)
(* Compiler::compile.  An activation is a frame: the node, the position in *)
(* the node's arm of the match (pc; for Program and Block the number of    *)
(* statements compiled so far) and the arm's locals.                       *)
(***************************************************************************)
Frame(node) ==
    [node |-> node, pc |-> 0, after_cond |-> 0, after_seq |-> 0,
     current_loc |-> 0, loc |-> 0]

Top == Head(kstack)
Rest == Tail(kstack)
CurBuf == Buf(intermedia, emit_loc)
Running == cstatus = "run" /\ kstack # <<>>
At(type, pcs) == Running /\ Top.node.t = type /\ Top.pc \in pcs

SetBuf(b) == intermedia' = b.intermedia /\ emit_loc' = b.emit_loc

\* the activation goes on at pc
Goto(f, pc) == kstack' = <<[f EXCEPT !.pc = pc]>> \o Rest /\ cstatus' = "run"
\* compile(node) is called and the activation goes on at pc when it returns
Call(node, f, pc) ==
    kstack' = <<Frame(node), [f EXCEPT !.pc = pc]>> \o Rest /\ cstatus' = "run"
\* the activation returns
Return ==
    /\ kstack' = Rest
    /\ cstatus' = IF Rest = <<>> THEN "done" ELSE "run"

\* Compiler::new, and compile called on the tree
InitCompile ==
    /\ program \in Programs
    /\ intermedia = <<>>
    /\ emit_loc = 0
    /\ tmp_offset = 0
    /\ table = EmptyTable
    /\ st_order = <<>>
    /\ st_call = NoCall
    /\ kstack = <<Frame(program)>>
    /\ cstatus = "run"
    /\ TmIdle
    /\ LexIdle
    /\ ParIdle

\* Program and BlockStatement: the next statement of the loop
CompileNextStatement ==
    /\ \/ At("Program", 0..Len(Top.node.statements) - 1)
       \/ At("BlockStatement", 0..Len(Top.node.statements) - 1)
    /\ Call(Top.node.statements[Top.pc + 1], Top, Top.pc + 1)
    /\ UNCHANGED <<program, intermedia, emit_loc, tmp_offset, symVars, tmVars, lexVars, parVars>>

\* Program and BlockStatement: the loop is over
CompileStatementsEnd ==
    /\ \/ At("Program", {Len(Top.node.statements)})
       \/ At("BlockStatement", {Len(Top.node.statements)})
    /\ Return
    /\ UNCHANGED <<program, intermedia, emit_loc, tmp_offset, symVars, tmVars, lexVars, parVars>>

\* ReadStatement: emit_r0(IN, AC, 0, 0)
ReadEmitIn ==
    /\ At("ReadStatement", {0})
    /\ SetBuf(emit_r0(CurBuf, "IN", AC, 0, 0))
    /\ Goto(Top, 1)
    /\ UNCHANGED <<program, tmp_offset, symVars, tmVars, lexVars, parVars>>

\* ReadStatement and AssignStatement: look_up, and insert when it finds nothing
ResolveTarget ==
    /\ At("ReadStatement", {1}) \/ At("AssignStatement", {1})
    /\ LET name == Top.node.name.value
           found == look_up(table, name)
       IN IF found = -1
          THEN /\ Goto([Top EXCEPT !.loc = insert_ret(table, name)], 2)
               /\ table' = insert_table(table, name)
               /\ st_order' = insert_order(table, st_order, name)
          ELSE /\ Goto([Top EXCEPT !.loc = found], 2)
               /\ UNCHANGED <<table, st_order>>
    /\ UNCHANGED <<program, intermedia, emit_loc, tmp_offset, st_call, tmVars, lexVars, parVars>>

\* ReadStatement and AssignStatement: emit_rm(ST, AC, loc as usize, GP)
StoreTarget ==
    /\ At("ReadStatement", {2}) \/ At("AssignStatement", {2})
    /\ SetBuf(emit_rm(CurBuf, "ST", AC, AsUsize(Top.loc), GP))
    /\ Return
    /\ UNCHANGED <<program, tmp_offset, symVars, tmVars, lexVars, parVars>>

\* WriteStatement: compile(&write.name)
WriteCompileName ==
    /\ At("WriteStatement", {0})
    /\ Call(Top.node.name, Top, 1)
    /\ UNCHANGED <<program, intermedia, emit_loc, tmp_offset, symVars, tmVars, lexVars, parVars>>

\* WriteStatement: emit_r0(OUT, AC, 0, 0)
WriteEmitOut ==
    /\ At("WriteStatement", {1})
    /\ SetBuf(emit_r0(CurBuf, "OUT", AC, 0, 0))
    /\ Return
    /\ UNCHANGED <<program, tmp_offset, symVars, tmVars, lexVars, parVars>>

\* AssignStatement: compile(&*assign.value)
AssignCompileValue ==
    /\ At("AssignStatement", {0})
    /\ Call(Top.node.value, Top, 1)
    /\ UNCHANGED <<program, intermedia, emit_loc, tmp_offset, symVars, tmVars, lexVars, parVars>>

\* IfStatement: compile(&*if_stmt.cond)
IfCompileCond ==
    /\ At("IfStatement", {0})
    /\ Call(Top.node.cond, Top, 1)
    /\ UNCHANGED <<program, intermedia, emit_loc, tmp_offset, symVars, tmVars, lexVars, parVars>>

\* IfStatement: after_cond = emit_skip(1); compile(&if_stmt.consequence)
IfReserveCond ==
    /\ At("IfStatement", {1})
    /\ SetBuf(emit_skip(CurBuf, 1))
    /\ Call(Top.node.consequence, [Top EXCEPT !.after_cond = emit_skip_ret(CurBuf)], 2)
    /\ UNCHANGED <<program, tmp_offset, symVars, tmVars, lexVars, parVars>>

\* IfStatement: after_seq = emit_skip(1)
IfReserveSeq ==
    /\ At("IfStatement", {2})
    /\ SetBuf(emit_skip(CurBuf, 1))
    /\ Goto([Top EXCEPT !.after_seq = emit_skip_ret(CurBuf)], 3)
    /\ UNCHANGED <<program, tmp_offset, symVars, tmVars, lexVars, parVars>>

\* IfStatement: current_loc = emit_skip(0), before each of the two patches
IfCurrentLoc ==
    /\ At("IfStatement", {3, 7})
    /\ SetBuf(emit_skip(CurBuf, 0))
    /\ Goto([Top EXCEPT !.current_loc = emit_skip_ret(CurBuf)], Top.pc + 1)
    /\ UNCHANGED <<program, tmp_offset, symVars, tmVars, lexVars, parVars>>

\* IfStatement: emit_backup(after_cond), and later emit_backup(after_seq)
IfBackup ==
    /\ At("IfStatement", {4, 8})
    /\ SetBuf(emit_backup(CurBuf, IF Top.pc = 4 THEN Top.after_cond ELSE Top.after_seq))
    /\ Goto(Top, Top.pc + 1)
    /\ UNCHANGED <<program, tmp_offset, symVars, tmVars, lexVars, parVars>>

\* IfStatement: emit_rm_abs(JEQ, AC, current_loc), and later
\* emit_rm_abs(LDA, PC, current_loc)
IfPatch ==
    /\ At("IfStatement", {5, 9})
    /\ SetBuf(IF Top.pc = 5
              THEN emit_rm_abs(CurBuf, "JEQ", AC, Top.current_loc)
              ELSE emit_rm_abs(CurBuf, "LDA", PC, Top.current_loc))
    /\ Goto(Top, Top.pc + 1)
    /\ UNCHANGED <<program, tmp_offset, symVars, tmVars, lexVars, parVars>>

\* IfStatement: emit_restore() after the first patch
IfRestore ==
    /\ At("IfStatement", {6})
    /\ SetBuf(emit_restore(CurBuf))
    /\ Goto(Top, 7)
    /\ UNCHANGED <<program, tmp_offset, symVars, tmVars, lexVars, parVars>>

\* IfStatement: emit_restore() after the second patch, the end of the arm
IfRestoreEnd ==
    /\ At("IfStatement", {10})
    /\ SetBuf(emit_restore(CurBuf))
    /\ Return
    /\ UNCHANGED <<program, tmp_offset, symVars, tmVars, lexVars, parVars>>

\* InfixExpression: compile(&*infix.left)
InfixCompileLeft ==
    /\ At("InfixExpression", {0})
    /\ Call(Top.node.left, Top, 1)
    /\ UNCHANGED <<program, intermedia, emit_loc, tmp_offset, symVars, tmVars, lexVars, parVars>>

\* InfixExpression: emit_rm(ST, AC, tmp_offset as usize, MP)
InfixSpill ==
    /\ At("InfixExpression", {1})
    /\ SetBuf(emit_rm(CurBuf, "ST", AC, AsUsize(tmp_offset), MP))
    /\ Goto(Top, 2)
    /\ UNCHANGED <<program, tmp_offset, symVars, tmVars, lexVars, parVars>>

\* InfixExpression: tmp_offset -= 1; compile(&*infix.right)
InfixCompileRight ==
    /\ At("InfixExpression", {2})
    /\ tmp_offset' = tmp_offset - 1
    /\ Call(Top.node.right, Top, 3)
    /\ UNCHANGED <<program, intermedia, emit_loc, symVars, tmVars, lexVars, parVars>>

\* InfixExpression: tmp_offset += 1; emit_rm(LD, AC1, tmp_offset as usize, MP)
InfixReload ==
    /\ At("InfixExpression", {3})
    /\ tmp_offset' = tmp_offset + 1
    /\ SetBuf(emit_rm(CurBuf, "LD", AC1, AsUsize(tmp_offset + 1), MP))
    /\ Goto(Top, 4)
    /\ UNCHANGED <<program, symVars, tmVars, lexVars, parVars>>

\* InfixExpression: the instructions of one of the six operators
InfixEmitOp ==
    /\ At("InfixExpression", {4})
    /\ InfixTail(Top.node.op) # <<>>
    /\ SetBuf(EmitAll(CurBuf, InfixTail(Top.node.op)))
    /\ Return
    /\ UNCHANGED <<program, tmp_offset, symVars, tmVars, lexVars, parVars>>

\* InfixExpression: panic!("token type {:?} is not infix operator")
InfixPanic ==
    /\ At("InfixExpression", {4})
    /\ InfixTail(Top.node.op) = <<>>
    /\ cstatus' = "panic"
    /\ UNCHANGED <<program, intermedia, emit_loc, tmp_offset, kstack>>
    /\ UNCHANGED <<symVars, tmVars, lexVars, parVars>>

\* Identifier: look_up, then emit_rm(LD, AC, loc as usize, GP)
CompileIdentifier ==
    /\ At("Identifier", {0})
    /\ SetBuf(emit_rm(CurBuf, "LD", AC, AsUsize(look_up(table, Top.node.value)), GP))
    /\ Return
    /\ UNCHANGED <<program, tmp_offset, symVars, tmVars, lexVars, parVars>>

\* Number: emit_rm(LDC, AC, number.value as usize, 0)
CompileNumber ==
    /\ At("Number", {0})
    /\ SetBuf(emit_rm(CurBuf, "LDC", AC, AsUsize(Top.node.value), 0))
    /\ Return
    /\ UNCHANGED <<program, tmp_offset, symVars, tmVars, lexVars, parVars>>

\* the node types with an arm of their own in the match of compile
Translated ==
    {"Program", "BlockStatement", "ReadStatement", "WriteStatement", "AssignStatement",
     "IfStatement", "InfixExpression", "Identifier", "Number"}

\* every other node type (RepeatStatement): the arm `_ => {}`
CompileOther ==
    /\ Running
    /\ Top.node.t \notin Translated
    /\ Return
    /\ UNCHANGED <<program, intermedia, emit_loc, tmp_offset, symVars, tmVars, lexVars, parVars>>

NextCompile ==
    \/ CompileNextStatement
    \/ CompileStatementsEnd
    \/ ReadEmitIn
    \/ ResolveTarget
    \/ StoreTarget
    \/ WriteCompileName
    \/ WriteEmitOut
    \/ AssignCompileValue
    \/ IfCompileCond
    \/ IfReserveCond
    \/ IfReserveSeq
    \/ IfCurrentLoc
    \/ IfBackup
    \/ IfPatch
    \/ IfRestore
    \/ IfRestoreEnd
    \/ InfixCompileLeft
    \/ InfixSpill
    \/ InfixCompileRight
    \/ InfixReload
    \/ InfixEmitOp
    \/ InfixPanic
    \/ CompileIdentifier
    \/ CompileNumber
    \/ CompileOther

SpecCompile == InitCompile /\ [][NextCompile]_vars

Range(s) == {s[i] : i \in 1..Len(s)}

\* C1: from an empty table, under any sequence of look_up and insert calls, the
\* offset look_up returns for an inserted name stays the one handed out at its
\* first insertion, distinct names have distinct offsets, and the offsets in use
\* are exactly 0..n-1, handed out in order of first insertion.
C1_OffsetsStableDistinctDense ==
    /\ DOMAIN table = Range(st_order)
    /\ Len(st_order) = Cardinality(DOMAIN table)
    /\ \A i \in 1..Len(st_order) : look_up(table, st_order[i]) = i - 1
    /\ \A a, b \in DOMAIN table : a # b => look_up(table, a) # look_up(table, b)
    /\ {look_up(table, n) : n \in DOMAIN table} = 0..(Cardinality(DOMAIN table) - 1)
    /\ st_call.op = "look_up" /\ st_call.name \in DOMAIN table
         => \E i \in 1..Len(st_order) :
                st_order[i] = st_call.name /\ st_call.ret = i - 1

C1_Witness ==
    /\ Len(st_order) = 3
    /\ st_call.op = "look_up"
    /\ st_call.name = st_order[1]
    /\ st_call.ret = 0

\* C2: insert of a name already in the table returns -1 and changes no offset and
\* adds no name; an insert of a fresh name returns the number of names in the
\* table, also right after a refused insert.
C2_ReinsertIsNoOp ==
    [][ st_call'.op = "insert" =>
          IF st_call'.name \in DOMAIN table
          THEN st_call'.ret = -1 /\ table' = table
          ELSE /\ st_call'.ret = Cardinality(DOMAIN table)
               /\ look_up(table', st_call'.name) = Cardinality(DOMAIN table)
               /\ \A n \in DOMAIN table : look_up(table', n) = table[n] ]_vars

C2_Witness ==
    /\ st_call.op = "insert"
    /\ st_call.ret = -1
    /\ Cardinality(DOMAIN table) = 2
    /\ st_call.name = st_order[1]

(***************************************************************************)
(* Properties of compile                                                   *)
(***************************************************************************)
IsLine(l, kind, op) == l.kind = kind /\ l.op = op

\* C3: for every If statement, whatever its condition and its consequence block
\* (empty, several statements, nested ifs), the offset operand of the JEQ written
\* into the first reserved slot is (after-target - slot address - 1), the
\* after-target being the end of the buffer once the block and the second slot
\* are emitted; in the finished listing every such JEQ still leads to the line
\* after a second slot.
C3_JeqOffset ==
    /\ At("IfStatement", 6..10) =>
          LET slot == Top.after_cond
              jeq == intermedia[slot + 1]
          IN /\ IsLine(jeq, "abs", "JEQ")
             /\ jeq.a = AC /\ jeq.c = PC
             /\ Top.current_loc = Len(intermedia)
             /\ jeq.b = Len(intermedia) - slot - 1
    /\ cstatus = "done" =>
          \A i \in 1..Len(intermedia) :
              IsLine(intermedia[i], "abs", "JEQ") =>
                  /\ i + intermedia[i].b \in (i + 1)..Len(intermedia)
                  /\ IsLine(intermedia[i + intermedia[i].b], "abs", "LDA")

C3_Witness ==
    /\ At("IfStatement", {6})
    /\ \E i \in 1..Len(Top.node.consequence.statements) :
            Top.node.consequence.statements[i].t = "IfStatement"
    /\ IsLine(intermedia[Top.after_cond + 1], "abs", "JEQ")
    /\ intermedia[Top.after_cond + 1].b >= 3

\* C4 as the specification states it: for an if whose block emitted instructions,
\* the resolved target of the JEQ in the first slot (slot + 1 + offset) is the
\* address immediately after the last instruction emitted for the block.
C4_TargetRightAfterBlock ==
    At("IfStatement", 6..10) /\ Top.after_seq > Top.after_cond + 1 =>
        Top.after_cond + 1 + intermedia[Top.after_cond + 1].b = Top.after_seq

\* C4, amended: the resolved target of the JEQ in the first slot is the address
\* immediately after the second reserved slot, which is one past the address
\* immediately after the last instruction emitted for the block.
C4_TargetAfterSecondSlot ==
    At("IfStatement", 6..10) /\ Top.after_seq > Top.after_cond + 1 =>
        /\ intermedia[Top.after_seq + 1].kind \in {"empty", "abs"}
        /\ Top.after_cond + 1 + intermedia[Top.after_cond + 1].b = Top.after_seq + 1

\* `if 0 < x then y := 1; end`: the store of y := 1 is line 11, the second slot
\* line 12 and the JEQ in line 9 resolves to 13
C4_Witness ==
    /\ program = Scenario4
    /\ At("IfStatement", {6})
    /\ Top.after_cond = 9
    /\ IsLine(intermedia[12], "rm", "ST")
    /\ Top.after_seq = 12
    /\ intermedia[10].b = 3

Rewound == emit_loc < Len(intermedia)

C5_State ==
    /\ emit_loc <= Len(intermedia)
    /\ Rewound => At("IfStatement", {5, 6, 9})
    /\ cstatus = "done" => emit_loc = Len(intermedia)

C5_Step ==
    /\ Rewound =>
          \/ /\ At("IfStatement", {5, 9})
             /\ intermedia[emit_loc + 1] = EmptyLine
             /\ intermedia'[emit_loc + 1] # EmptyLine
             /\ intermedia' = [intermedia EXCEPT ![emit_loc + 1] = intermedia'[emit_loc + 1]]
             /\ emit_loc' = emit_loc + 1
          \/ /\ At("IfStatement", {6})
             /\ intermedia' = intermedia
             /\ emit_loc' = Len(intermedia)
    /\ ~Rewound /\ Rewound' => At("IfStatement", {4, 8}) /\ intermedia' = intermedia
    /\ ~Rewound =>
          \A i \in 1..Len(intermedia) :
              intermedia'[i] = intermedia[i]
    /\ Len(kstack') < Len(kstack) => emit_loc' = Len(intermedia')

\* C5: emit_loc is never above intermedia.len(); it is below it only between an
\* emit_backup and the following emit_restore, where exactly one line is written
\* and it overwrites a reserved slot; whenever compile of a node returns (nested
\* ifs included) emit_loc is intermedia.len(), and no emission outside a patch
\* overwrites an earlier line.
C5_Cursor == []C5_State /\ [][C5_Step]_vars

C5_Witness ==
    /\ At("IfStatement", {6})
    /\ Len(kstack) >= 3
    /\ emit_loc = Top.after_cond + 1
    /\ emit_loc + 2 < Len(intermedia)

RECURSIVE HasUntranslated(_)
HasUntranslated(node) ==
    CASE node.t \in {"Program", "BlockStatement"} ->
            \E i \in 1..Len(node.statements) : HasUntranslated(node.statements[i])
      [] node.t = "IfStatement" -> HasUntranslated(node.consequence)
      [] node.t \in {"ReadStatement", "WriteStatement", "AssignStatement",
                     "InfixExpression", "Identifier", "Number"} -> FALSE
      [] OTHER -> TRUE

\* C7: for every valid program with at least one statement, repeat statements
\* included, compile returns and leaves a listing that is not empty.
C7_ListingNotEmpty ==
    cstatus = "done" /\ program.statements # <<>> => Len(intermedia) > 0

\* C8: compile of a tree that holds a node with no translation rule (Repeat) does
\* not return normally: it ends in a fatal error.
C8_UntranslatedIsFatal ==
    HasUntranslated(program) => cstatus # "done"

(***************************************************************************)
(* The target machine, run on the five instructions of a relational tail   *)
(***************************************************************************)
MaxVal == 3
MaxBase == 1

RECURSIVE Filler(_, _)
Filler(b, n) == IF n = 0 THEN b ELSE Filler(emit_rm(b, "LDC", AC, 0, 0), n - 1)

\* the lines before the tail, then the tail as compile emits it
TailListing(op, base) == EmitAll(Filler(Buf(<<>>, 0), base), InfixTail(op)).intermedia

InitTM ==
    /\ \E op \in RelOps, l \in -MaxVal..MaxVal, r \in -MaxVal..MaxVal, base \in 0..MaxBase :
          /\ tm_in = [op |-> op, left |-> l, right |-> r, base |-> base]
          /\ tm_code = TailListing(op, base)
          /\ tm_reg = [x \in {AC, AC1, PC} |->
                          IF x = AC THEN r ELSE IF x = AC1 THEN l ELSE base]
    /\ tm_status = "run"
    /\ SymIdle
    /\ CompIdle
    /\ LexIdle
    /\ ParIdle

InTail(pc) == pc \in tm_in.base..(tm_in.base + Len(InfixTail(tm_in.op)) - 1)
Fetched == tm_code[tm_reg[PC] + 1]
\* the registers once the instruction is fetched: PC is already incremented
AfterFetch == [tm_reg EXCEPT ![PC] = tm_reg[PC] + 1]
TMFetch(op) ==
    /\ tm_status = "run"
    /\ InTail(tm_reg[PC])
    /\ Fetched.op = op
TMSet(reg) ==
    /\ tm_reg' = reg
    /\ tm_status' = IF InTail(reg[PC]) THEN "run" ELSE "halt"
    /\ UNCHANGED <<tm_code, tm_in, symVars, compVars, lexVars, parVars>>

\* SUB r,s,t: reg[r] = reg[s] - reg[t]
TMSub ==
    /\ TMFetch("SUB")
    /\ TMSet([AfterFetch EXCEPT ![Fetched.a] = AfterFetch[Fetched.b] - AfterFetch[Fetched.c]])

\* JLT r,d(s) and JEQ r,d(s): PC = d + reg[s] when reg[r] < 0, resp. reg[r] = 0
TMJump ==
    /\ TMFetch("JLT") \/ TMFetch("JEQ")
    /\ LET taken == IF Fetched.op = "JLT"
                    THEN AfterFetch[Fetched.a] < 0
                    ELSE AfterFetch[Fetched.a] = 0
       IN TMSet(IF taken
                THEN [AfterFetch EXCEPT ![PC] = Fetched.b + AfterFetch[Fetched.c]]
                ELSE AfterFetch)

\* LDC r,d(s): reg[r] = d
TMLdc ==
    /\ TMFetch("LDC")
    /\ TMSet([AfterFetch EXCEPT ![Fetched.a] = Fetched.b])

\* LDA r,d(s): reg[r] = d + reg[s]
TMLda ==
    /\ TMFetch("LDA")
    /\ TMSet([AfterFetch EXCEPT ![Fetched.a] = Fetched.b + AfterFetch[Fetched.c]])

NextTM == TMSub \/ TMJump \/ TMLdc \/ TMLda

SpecTM == InitTM /\ [][NextTM]_vars

Holds(op, l, r) == IF op = "LessThan" THEN l < r ELSE l = r

\* C6: the tail emitted for `<` and `=`, run with the left operand in AC1 and the
\* right operand in AC, leaves AC = 1 when the relation holds and AC = 0 when it
\* does not, and control goes on at the instruction right after the five.
C6_RelationalTail ==
    /\ tm_status = "run" => InTail(tm_reg[PC])
    /\ tm_status = "halt" =>
          /\ tm_reg[PC] = tm_in.base + 5
          /\ tm_reg[AC] = IF Holds(tm_in.op, tm_in.left, tm_in.right) THEN 1 ELSE 0

C6_Witness ==
    /\ tm_status = "halt"
    /\ tm_in.op = "LessThan"
    /\ tm_in.left < tm_in.right
    /\ tm_in.base = 1
    /\ tm_reg[AC] = 1
    /\ tm_reg[PC] = 6

(***************************************************************************)
(* Lexer (lexer.rs) and tokens (token.rs).  A character is a one-character *)
(* string, a text a sequence of characters; NUL stands for the character   *)
(* '\0' that peek_char returns at the end of the input.                    *)
(***************************************************************************)
NUL == "NUL"
Letters ==
    {"a", "b", "c", "d", "e", "f", "g", "h", "i", "j", "k", "l", "m", "n", "o", "p", "q",
     "r", "s", "t", "u", "v", "w", "x", "y", "z",
     "A", "B", "C", "D", "E", "F", "G", "H", "I", "J", "K", "L", "M", "N", "O", "P", "Q",
     "R", "S", "T", "U", "V", "W", "X", "Y", "Z"}
Digits == {"0", "1", "2", "3", "4", "5", "6", "7", "8", "9"}
Spaces == {"\n", "\r", "\t", " "}

\* Token::new
Token(type, literal) == [token_type |-> type, literal |-> literal]

\* token::look_up_keywords
look_up_keywords(ident) ==
    CASE ident = <<"r", "e", "a", "d">> -> "Read"
      [] ident = <<"i", "f">> -> "If"
      [] ident = <<"t", "h", "e", "n">> -> "Then"
      [] ident = <<"r", "e", "p", "e", "a", "t">> -> "Repeat"
      [] ident = <<"u", "n", "t", "i", "l">> -> "Until"
      [] ident = <<"w", "r", "i", "t", "e">> -> "Write"
      [] ident = <<"e", "n", "d">> -> "End"
      [] OTHER -> "Ident"

\* Lexer::remove_comment
RECURSIVE RemoveFrom(_, _, _, _)
RemoveFrom(text, i, in_comment, output) ==
    IF i > Len(text) THEN output
    ELSE IF text[i] = "{" THEN RemoveFrom(text, i + 1, TRUE, output)
    ELSE IF text[i] = "}" THEN RemoveFrom(text, i + 1, FALSE, output)
    ELSE IF ~in_comment THEN RemoveFrom(text, i + 1, in_comment, Append(output, text[i]))
    ELSE RemoveFrom(text, i + 1, in_comment, output)
remove_comment(text) == RemoveFrom(text, 1, FALSE, <<>>)

\* `self.input.len() - 1` in peek_char: with an empty input the subtraction
\* overflows, which panics in a build with overflow checks and wraps to
\* usize::MAX (equal to `-1 as usize`) in one without
PeekOverflows(input) == Len(input) = 0

\* Lexer::peek_char (the wrapping outcome when the input is empty)
peek_char(input, pos) ==
    IF pos = Len(input) - 1 THEN NUL ELSE input[pos + 2]

next_char_rewind(input, pos) ==
    IF peek_char(input, pos) # NUL THEN pos + 1 ELSE -1

\* Lexer::next_char: the position it leaves (the character it returns is
\* peek_char at the position before)
next_char(input, pos) ==
    IF peek_char(input, pos) # NUL THEN pos + 1 ELSE pos

\* Lexer::consume_spaces: the position it leaves
RECURSIVE consume_spaces(_, _)
consume_spaces(input, pos) ==
    IF peek_char(input, pos) \in Spaces
    THEN consume_spaces(input, next_char(input, pos))
    ELSE pos

\* the loop of read_identifier and read_number
RECURSIVE ReadWhile(_, _, _, _)
ReadWhile(input, pos, class, output) ==
    IF peek_char(input, pos) \in class
    THEN ReadWhile(input, next_char(input, pos), class, Append(output, peek_char(input, pos)))
    ELSE [literal |-> output, pos |-> pos, hang |-> FALSE]

\* Lexer::read_identifier
read_identifier(input, pos) == ReadWhile(input, pos - 1, Letters, <<>>)

\* Lexer::read_number
read_number(input, pos) == ReadWhile(input, pos - 1, Digits, <<>>)

\* Lexer::read_string.  At the end of the input next_char returns '\0' without
\* moving, so the loop of a string that is never closed does not end: hang.
RECURSIVE ReadString(_, _, _)
ReadString(input, pos, output) ==
    LET ch == peek_char(input, pos)
    IN IF ch = "\"" THEN [literal |-> output, pos |-> next_char(input, pos), hang |-> FALSE]
       ELSE IF ch = NUL THEN [literal |-> output, pos |-> pos, hang |-> TRUE]
       ELSE ReadString(input, next_char(input, pos), Append(output, ch))
read_string(input, pos) == ReadString(input, pos, <<>>)

Lexed(type, literal, pos) == [tok |-> Token(type, literal), pos |-> pos, hang |-> FALSE]

\* Lexer::next_token: the token it returns and the position it leaves, or hang
next_token(input, pos0) ==
    LET sp == consume_spaces(input, pos0)
        ch == peek_char(input, sp)
        pos == next_char(input, sp)
    IN CASE ch = ";" -> Lexed("SemiColon", <<";">>, pos)
         [] ch = "<" ->
               IF peek_char(input, pos) = "="
               THEN Lexed("EqualLessThan", <<"<", "=">>, next_char(input, pos))
               ELSE Lexed("LessThan", <<"<">>, pos)
         [] ch = "=" -> Lexed("Equal", <<"=">>, pos)
         [] ch = ":" -> Lexed("Assign", <<":", "=">>, next_char(input, pos))
         [] ch = "*" -> Lexed("Mul", <<"*">>, pos)
         [] ch = "-" -> Lexed("Minus", <<"-">>, pos)
         [] ch = "+" -> Lexed("Add", <<"+">>, pos)
         [] ch = "/" -> Lexed("Divide", <<"/">>, pos)
         [] ch = "\"" ->
               LET r == read_string(input, pos)
               IN [tok |-> Token("String", r.literal), pos |-> r.pos, hang |-> r.hang]
         [] ch = NUL -> Lexed("Eof", <<>>, pos)
         [] ch \in Letters ->
               LET r == read_identifier(input, pos)
               IN Lexed(look_up_keywords(r.literal), r.literal, r.pos)
         [] ch \in Digits ->
               LET r == read_number(input, pos)
               IN Lexed("Number", r.literal, r.pos)
         [] OTHER -> Lexed("Illegal", <<>>, pos)

\* the texts given to Lexer::new, and the calls made on one lexer
MaxLen == 3
MaxCalls == 5
LexChars == {"i", "f", "1", " ", ";", ":", "=", "<", "\"", "#", "{", "}", NUL}
Texts == SeqsUpTo(LexChars, MaxLen)

\* Lexer::new
InitLexer ==
    /\ \E text \in Texts : lx_input = remove_comment(text)
    /\ lx_pos = -1
    /\ lx_build \in {"debug", "release"}
    /\ lx_tok = NoToken
    /\ lx_calls = 0
    /\ lx_status = "run"
    /\ SymIdle
    /\ CompIdle
    /\ TmIdle
    /\ ParIdle

LexCall ==
    /\ lx_status = "run"
    /\ lx_calls < MaxCalls
    /\ lx_calls' = lx_calls + 1
    /\ UNCHANGED <<lx_input, lx_build, symVars, compVars, tmVars, parVars>>

\* a call of Lexer::next_token that returns a token
LexNextToken ==
    /\ LexCall
    /\ ~(PeekOverflows(lx_input) /\ lx_build = "debug")
    /\ ~next_token(lx_input, lx_pos).hang
    /\ lx_tok' = next_token(lx_input, lx_pos).tok
    /\ lx_pos' = next_token(lx_input, lx_pos).pos
    /\ lx_status' = "run"

\* a call of Lexer::next_token that panics: the overflow in peek_char
LexPanic ==
    /\ LexCall
    /\ PeekOverflows(lx_input) /\ lx_build = "debug"
    /\ lx_status' = "panic"
    /\ UNCHANGED <<lx_tok, lx_pos>>

\* a call of Lexer::next_token that does not return: the loop of read_string
LexHang ==
    /\ LexCall
    /\ ~(PeekOverflows(lx_input) /\ lx_build = "debug")
    /\ next_token(lx_input, lx_pos).hang
    /\ lx_status' = "hang"
    /\ UNCHANGED <<lx_tok, lx_pos>>

NextLexer == LexNextToken \/ LexPanic \/ LexHang

SpecLexer == InitLexer /\ [][NextLexer]_vars

\* C9: once next_token has returned an end-of-input token, every later call
\* returns an end-of-input token again and leaves the scanner position where it
\* was.
C9_EofIdempotent ==
    [][ lx_tok.token_type = "Eof" /\ lx_calls' = lx_calls + 1 =>
            /\ lx_status' = "run"
            /\ lx_tok'.token_type = "Eof"
            /\ lx_pos' = lx_pos ]_vars

C9_Witness ==
    /\ lx_tok.token_type = "Eof"
    /\ lx_calls = 4
    /\ Len(lx_input) = 2
    /\ lx_pos = 1

(***************************************************************************)
(* Parser (parser.rs).  The parser owns a lexer (lx_input, lx_pos) and the *)
(* peek token.  An activation of a parse function is a frame: the          *)
(* function, the position in it and its locals.                            *)
(***************************************************************************)
PFrame(fn) ==
    [fn |-> fn, pc |-> 0, ident |-> NoToken, op |-> NoToken, node |-> <<>>,
     statements |-> <<>>]

PTop == Head(pstack)
PRest == Tail(pstack)
PAt(fn, pc) == pstatus = "run" /\ pstack # <<>> /\ PTop.fn = fn /\ PTop.pc = pc

\* whether the call of Lexer::next_token made now returns, and what it returns
LexerReturnsAt(input, pos, build) ==
    /\ ~(PeekOverflows(input) /\ build = "debug")
    /\ ~next_token(input, pos).hang
LexerStatusAt(input, build) ==
    IF PeekOverflows(input) /\ build = "debug" THEN "panic" ELSE "hang"
LexerReturns == LexerReturnsAt(lx_input, lx_pos, lx_build)
LexerStatus == LexerStatusAt(lx_input, lx_build)

PUnchanged == UNCHANGED <<lx_input, lx_build, lx_calls, lx_status, symVars, compVars, tmVars>>

\* Parser::next_token: peek = lexer.next_token(), and the parse function goes on
\* with `stack`, returning `ret`; when the lexer does not return, neither does
\* the parser
Consume(stack, ret) ==
    /\ IF LexerReturns
       THEN /\ pk' = next_token(lx_input, lx_pos).tok
            /\ lx_tok' = next_token(lx_input, lx_pos).tok
            /\ lx_pos' = next_token(lx_input, lx_pos).pos
            /\ pstack' = stack
            /\ pret' = ret
            /\ pstatus' = IF stack = <<>> THEN "done" ELSE "run"
       ELSE /\ pstatus' = LexerStatus
            /\ UNCHANGED <<pk, lx_tok, lx_pos, pstack, pret>>
    /\ PUnchanged

\* a step that consumes no token
Continue(stack, ret) ==
    /\ pstack' = stack
    /\ pret' = ret
    /\ pstatus' = IF stack = <<>> THEN "done" ELSE "run"
    /\ UNCHANGED <<pk, lx_tok, lx_pos>>
    /\ PUnchanged

\* panic!
Panic ==
    /\ pstatus' = "panic"
    /\ UNCHANGED <<pk, lx_tok, lx_pos, pstack, pret>>
    /\ PUnchanged

PGoto(f, pc) == <<[f EXCEPT !.pc = pc]>> \o PRest
PCall(fn, f, pc) == <<PFrame(fn), [f EXCEPT !.pc = pc]>> \o PRest

\* the texts given to Parser::new: a valid program in which one word is
\* replaced by another word or dropped, and the short sequences of words
W(chars) == chars \o <<" ">>
WRead == W(<<"r", "e", "a", "d">>)
WWrite == W(<<"w", "r", "i", "t", "e">>)
WIf == W(<<"i", "f">>)
WThen == W(<<"t", "h", "e", "n">>)
WEnd == W(<<"e", "n", "d">>)
WRepeat == W(<<"r", "e", "p", "e", "a", "t">>)
WUntil == W(<<"u", "n", "t", "i", "l">>)
WX == W(<<"x">>)
WY == W(<<"y">>)
W5 == W(<<"5">>)
WAssign == <<":", "=">>
WSemi == <<";">>
WLess == <<"<">>
WAdd == <<"+">>
WEq == <<"=">>
WIllegal == <<"#">>

Words ==
    {WRead, WWrite, WIf, WThen, WEnd, WRepeat, WUntil, WX, WY, W5, WAssign, WSemi,
     WLess, WAdd, WEq, WIllegal}
ShortWords == {WRead, WX, W5, WAssign, WSemi, WIf, WThen, WEnd}

Templates ==
    { <<WRead, WX, WSemi, WWrite, WX, WSemi>>,
      <<WX, WAssign, W5, WSemi, WY, WAssign, WX, WAdd, W5>>,
      <<WIf, W5, WLess, WX, WThen, WY, WAssign, W5, WSemi, WEnd>>,
      <<WRepeat, WX, WAssign, WX, WAdd, W5, WSemi, WUntil, WX, WEq, W5, WSemi>>,
      <<WIf, WX, WThen, WRead, WY, WSemi, WEnd, WWrite, WY, WSemi>> }

RECURSIVE Flatten(_)
Flatten(ws) == IF ws = <<>> THEN <<>> ELSE Head(ws) \o Flatten(Tail(ws))

Replaced(ws, i, w) == [j \in 1..Len(ws) |-> IF j = i THEN w ELSE ws[j]]
Dropped(ws, i) == [j \in 1..(Len(ws) - 1) |-> IF j < i THEN ws[j] ELSE ws[j + 1]]

MaxWords == 3

ParserTexts ==
    {Flatten(ws) : ws \in Templates}
        \cup UNION {{Flatten(Replaced(ws, i, w)) : i \in 1..Len(ws), w \in Words} :
                        ws \in Templates}
        \cup UNION {{Flatten(Dropped(ws, i)) : i \in 1..Len(ws)} : ws \in Templates}
        \cup {Flatten(ws) : ws \in SeqsUpTo(ShortWords, MaxWords)}

\* Parser::new: the lexer is made and the first token is read into peek
InitParser ==
    /\ \E text \in ParserTexts : lx_input = remove_comment(text)
    /\ lx_build \in {"debug", "release"}
    /\ lx_calls = 0
    /\ lx_status = "idle"
    /\ IF ~LexerReturnsAt(lx_input, -1, lx_build)
       THEN /\ pk = NoToken
            /\ lx_tok = NoToken
            /\ lx_pos = -1
            /\ pstack = <<>>
            /\ pstatus = LexerStatusAt(lx_input, lx_build)
       ELSE /\ pk = next_token(lx_input, -1).tok
            /\ lx_tok = next_token(lx_input, -1).tok
            /\ lx_pos = next_token(lx_input, -1).pos
            /\ pstack = <<PFrame("parse_program")>>
            /\ pstatus = "run"
    /\ pret = <<>>
    /\ SymIdle
    /\ CompIdle
    /\ TmIdle

\* parse_program: the loop goes on with parse_statement
ProgramStatement ==
    /\ PAt("parse_program", 0)
    /\ pk.token_type # "Eof"
    /\ Continue(PCall("parse_statement", PTop, 1), pret)

\* parse_program: program.statements.push(stmt)
ProgramPush ==
    /\ PAt("parse_program", 1)
    /\ Continue(PGoto([PTop EXCEPT !.statements = Append(@, pret)], 0), pret)

\* parse_program: the peek token is Eof and the Program is returned
ProgramReturn ==
    /\ PAt("parse_program", 0)
    /\ pk.token_type = "Eof"
    /\ Continue(PRest, Program(PTop.statements))

StatementStarts == {"Ident", "If", "Repeat", "Read", "Write"}
StatementFn(type) ==
    CASE type = "Ident" -> "parse_assign_statement"
      [] type = "If" -> "parse_if_statement"
      [] type = "Repeat" -> "parse_repeat_statement"
      [] type = "Read" -> "parse_read_statement"
      [] type = "Write" -> "parse_write_statement"

\* parse_statement: the parse function of the statement the peek token starts
\* (its result is the result of parse_statement)
StatementDispatch ==
    /\ PAt("parse_statement", 0)
    /\ pk.token_type \in StatementStarts
    /\ Continue(<<PFrame(StatementFn(pk.token_type))>> \o PRest, pret)

\* parse_statement: panic!("the token type represents no statement")
StatementPanic ==
    /\ PAt("parse_statement", 0)
    /\ pk.token_type \notin StatementStarts
    /\ Panic

\* parse_assign_statement: let ident = self.next_token()
AssignIdent ==
    /\ PAt("parse_assign_statement", 0)
    /\ Consume(PGoto([PTop EXCEPT !.ident = pk], 1), pret)

\* parse_assign_statement: the peek token is := and is passed; parse_expression
AssignPassAssign ==
    /\ PAt("parse_assign_statement", 1)
    /\ pk.token_type = "Assign"
    /\ Consume(PCall("parse_expression", PTop, 2), pret)

\* parse_assign_statement: panic!("expected TokenType::Assign")
AssignPanic ==
    /\ PAt("parse_assign_statement", 1)
    /\ pk.token_type # "Assign"
    /\ Panic

\* parse_assign_statement: self.next_token() (pass ;) and the statement is returned
AssignPassSemi ==
    /\ PAt("parse_assign_statement", 2)
    /\ Consume(PRest, [t |-> "AssignStatement",
                       name |-> Identifier(PTop.ident.literal), value |-> pret])

\* parse_if_statement: self.next_token() (pass If); parse_expression
IfPassIf ==
    /\ PAt("parse_if_statement", 0)
    /\ Consume(PCall("parse_expression", PTop, 1), pret)

\* parse_if_statement: the peek token is then and is passed; parse_block_statement
IfPassThen ==
    /\ PAt("parse_if_statement", 1)
    /\ pk.token_type = "Then"
    /\ Consume(PCall("parse_block_statement", [PTop EXCEPT !.node = pret], 2), pret)

\* parse_if_statement: panic!("expected TokenType::Then")
IfPanic ==
    /\ PAt("parse_if_statement", 1)
    /\ pk.token_type # "Then"
    /\ Panic

\* parse_if_statement: self.next_token() (pass end) and the statement is returned
IfPassEnd ==
    /\ PAt("parse_if_statement", 2)
    /\ Consume(PRest, [t |-> "IfStatement", cond |-> PTop.node, consequence |-> pret])

\* parse_repeat_statement: self.next_token() (pass repeat); parse_block_statement
RepeatPassRepeat ==
    /\ PAt("parse_repeat_statement", 0)
    /\ Consume(PCall("parse_block_statement", PTop, 1), pret)

\* parse_repeat_statement: self.next_token() (pass until); parse_expression
RepeatPassUntil ==
    /\ PAt("parse_repeat_statement", 1)
    /\ Consume(PCall("parse_expression", [PTop EXCEPT !.node = pret], 2), pret)

\* parse_repeat_statement: self.next_token() (pass ;) and the statement is returned
RepeatPassSemi ==
    /\ PAt("parse_repeat_statement", 2)
    /\ Consume(PRest, [t |-> "RepeatStatement", cond |-> pret, consequence |-> PTop.node])

\* parse_read_statement and parse_write_statement: self.next_token() (pass read)
ReadWritePassKeyword ==
    /\ PAt("parse_read_statement", 0) \/ PAt("parse_write_statement", 0)
    /\ Consume(PGoto(PTop, 1), pret)

\* parse_read_statement and parse_write_statement: let ident = self.next_token()
ReadWriteIdent ==
    /\ PAt("parse_read_statement", 1) \/ PAt("parse_write_statement", 1)
    /\ Consume(PGoto([PTop EXCEPT !.ident = pk], 2), pret)

\* parse_read_statement and parse_write_statement: self.next_token() (pass ;) and
\* the statement is returned
ReadWritePassSemi ==
    /\ PAt("parse_read_statement", 2) \/ PAt("parse_write_statement", 2)
    /\ Consume(PRest,
               [t |-> IF PTop.fn = "parse_read_statement"
                      THEN "ReadStatement" ELSE "WriteStatement",
                name |-> Identifier(PTop.ident.literal)])

\* parse_block_statement: the loop goes on with parse_statement
BlockParseStatement ==
    /\ PAt("parse_block_statement", 0)
    /\ pk.token_type \notin {"End", "Until"}
    /\ Continue(PCall("parse_statement", PTop, 1), pret)

\* parse_block_statement: block.statements.push(stmt)
BlockPush ==
    /\ PAt("parse_block_statement", 1)
    /\ Continue(PGoto([PTop EXCEPT !.statements = Append(@, pret)], 0), pret)

\* parse_block_statement: the peek token is End or Until, which is not consumed
BlockReturn ==
    /\ PAt("parse_block_statement", 0)
    /\ pk.token_type \in {"End", "Until"}
    /\ Continue(PRest, BlockStatement(PTop.statements))

\* parse_expression: parse_prefix_expression for the left operand
ExpressionLeft ==
    /\ PAt("parse_expression", 0)
    /\ Continue(PCall("parse_prefix_expression", PTop, 1), pret)

\* parse_expression: the peek token is neither ; nor then: it is taken as the
\* operator, and parse_infix_expression parses the right operand
ExpressionOperator ==
    /\ PAt("parse_expression", 1)
    /\ pk.token_type \notin {"SemiColon", "Then"}
    /\ Consume(PCall("parse_prefix_expression", [PTop EXCEPT !.node = pret, !.op = pk], 2),
               pret)

\* parse_expression: the peek token is ; or then and the left operand is returned
ExpressionReturnLeft ==
    /\ PAt("parse_expression", 1)
    /\ pk.token_type \in {"SemiColon", "Then"}
    /\ Continue(PRest, pret)

\* parse_infix_expression: the InfixExpression is returned
ExpressionReturnInfix ==
    /\ PAt("parse_expression", 2)
    /\ Continue(PRest, [t |-> "InfixExpression", op |-> PTop.op,
                        left |-> PTop.node, right |-> pret])

\* i32 of a run of digits
RECURSIVE DigitsValue(_)
DigitsValue(literal) ==
    IF literal = <<>> THEN 0
    ELSE 10 * DigitsValue(SubSeq(literal, 1, Len(literal) - 1))
            + (CHOOSE d \in 0..9 : ToString(d) = literal[Len(literal)])

RECURSIVE StripZeros(_)
StripZeros(literal) ==
    IF literal # <<>> /\ Head(literal) = "0" THEN StripZeros(Tail(literal)) ELSE literal

\* whether literal.parse() of parse_number succeeds: the value is at most
\* i32::MAX = 2147483647
FitsI32(literal) ==
    LET d == StripZeros(literal)
    IN \/ Len(d) <= 9
       \/ /\ Len(d) = 10
          /\ \/ DigitsValue(SubSeq(d, 1, 9)) < 214748364
             \/ DigitsValue(SubSeq(d, 1, 9)) = 214748364 /\ DigitsValue(<<d[10]>>) <= 7

\* parse_prefix_expression: parse_ident
PrefixIdent ==
    /\ PAt("parse_prefix_expression", 0)
    /\ pk.token_type = "Ident"
    /\ Consume(PRest, Identifier(pk.literal))

\* parse_prefix_expression: parse_number, whose unwrap() panics on a literal
\* that is no i32
PrefixNumber ==
    /\ PAt("parse_prefix_expression", 0)
    /\ pk.token_type = "Number"
    /\ IF FitsI32(pk.literal)
       THEN Consume(PRest, Number(DigitsValue(StripZeros(pk.literal))))
       ELSE Panic

\* parse_prefix_expression: panic!("token type: {:?} is not prefix expression")
PrefixPanic ==
    /\ PAt("parse_prefix_expression", 0)
    /\ pk.token_type \notin {"Ident", "Number"}
    /\ Panic

NextParser ==
    \/ ProgramStatement
    \/ ProgramPush
    \/ ProgramReturn
    \/ StatementDispatch
    \/ StatementPanic
    \/ AssignIdent
    \/ AssignPassAssign
    \/ AssignPanic
    \/ AssignPassSemi
    \/ IfPassIf
    \/ IfPassThen
    \/ IfPanic
    \/ IfPassEnd
    \/ RepeatPassRepeat
    \/ RepeatPassUntil
    \/ RepeatPassSemi
    \/ ReadWritePassKeyword
    \/ ReadWriteIdent
    \/ ReadWritePassSemi
    \/ BlockParseStatement
    \/ BlockPush
    \/ BlockReturn
    \/ ExpressionLeft
    \/ ExpressionOperator
    \/ ExpressionReturnLeft
    \/ ExpressionReturnInfix
    \/ PrefixIdent
    \/ PrefixNumber
    \/ PrefixPanic

SpecParser == InitParser /\ [][NextParser]_vars

\* the steps that consume a token taken to be `type`
Expecting(type) ==
    \/ type = "Assign" /\ PAt("parse_assign_statement", 1)
    \/ type = "Then" /\ PAt("parse_if_statement", 1)
    \/ /\ type = "SemiColon"
       /\ \/ PAt("parse_assign_statement", 2)
          \/ PAt("parse_repeat_statement", 2)
          \/ PAt("parse_read_statement", 2)
          \/ PAt("parse_write_statement", 2)

\* C10: at every step that consumes a token it takes to be := (after an
\* assignment target), then (after an if condition) or the terminating ; (of
\* assign, read, write and repeat-until), parsing fails fatally when the peek
\* token is another token; no such step consumes it and goes on.
C10_ExpectedOrFatal ==
    [][ \A type \in {"Assign", "Then", "SemiColon"} :
            Expecting(type) /\ pk.token_type # type => pstatus' = "panic" ]_vars

\* C11: whenever the peek token is the Illegal token the lexer made of an
\* unrecognized character, the step of the parser that uses it fails fatally:
\* no step consumes it (as an identifier name, as an infix operator or as
\* anything else) and goes on.
C11_IllegalIsFatal ==
    [][ pstatus = "run" /\ pk.token_type = "Illegal" =>
            pstatus' = "panic" \/ UNCHANGED <<pk, lx_pos>> ]_vars

\* the Infix activations whose right operand is being compiled, or has just been
\* compiled: their spilled left operand awaits its reload
Pending ==
    Cardinality({i \in 1..Len(kstack) :
                    kstack[i].node.t = "InfixExpression" /\ kstack[i].pc = 3})

\* the line the step has just written
Written == intermedia'[emit_loc']

\* the scratch counter is 0 less the number of spills that await their reload:
\* it is 0 between statements and the same after an Infix node as before it
ScratchCounter == cstatus # "panic" => tmp_offset = 0 - Pending

\* the store and the reload of one Infix node carry the same offset operand
SpillReloadSameOperand ==
    /\ At("InfixExpression", {1}) /\ Top'.pc = 2 =>
            Written = Line(emit_loc, "rm", "ST", AC, AsUsize(0 - Pending), MP)
    /\ At("InfixExpression", {3}) /\ Top'.pc = 4 =>
            Written = Line(emit_loc, "rm", "LD", AC1, AsUsize(0 - (Pending - 1)), MP)

\* the offset operand of a spill with d enclosing spills pending is d lower than
\* that of the outermost spill, which is 0
SpillOneLower ==
    At("InfixExpression", {1}) /\ Top'.pc = 2 => Written.b = 0 - Pending

\* C12: for every Infix node at any nesting depth, the ST that spills the left
\* operand and the LD that reloads it carry the same scratch offset k,
\* tmp_offset is after the node what it was before (0 between statements), and
\* the spill of an Infix nested in the right operand of another goes to the
\* cell one lower than the enclosing spill.
C12_ScratchCells ==
    /\ []ScratchCounter
    /\ [][SpillReloadSameOperand]_vars
    /\ [][SpillOneLower]_vars

\* the part of C12 the generator keeps: same operand in ST and LD, counter
\* restored, and distinct operands for nested spills
C12_SameCellAndCounter ==
    /\ []ScratchCounter
    /\ [][SpillReloadSameOperand]_vars
    /\ [][At("InfixExpression", {1}) /\ Top'.pc = 2 /\ Pending > 0 =>
            \A d \in 0..(Pending - 1) : Written.b # AsUsize(0 - d)]_vars

\* the two reserved slots of the If on top, once both are patched
FirstSlot == intermedia[Top.after_cond + 1]
SecondSlot == intermedia[Top.after_seq + 1]

\* C13: when the arm of an If statement ends, both reserved slots hold their
\* instruction (JEQ in the first, LDA in the second), both resolve (address + 1
\* + offset) to the end of the buffer, which is the address after the second
\* slot; the second slot holds LDA PC,0(PC); and with an empty consequence
\* block the two slots are adjacent and the first holds offset 1.
C13_BothSlotsSameTarget ==
    At("IfStatement", {10}) =>
        /\ FirstSlot = Line(Top.after_cond, "abs", "JEQ", AC, FirstSlot.b, PC)
        /\ SecondSlot = Line(Top.after_seq, "abs", "LDA", PC, 0, PC)
        /\ Top.after_cond + 1 + FirstSlot.b = Len(intermedia)
        /\ Top.after_seq + 1 + SecondSlot.b = Len(intermedia)
        /\ \A i \in (Top.after_cond + 1)..Len(intermedia) : intermedia[i].kind # "empty"
        /\ Top.node.consequence.statements = <<>> =>
                Top.after_seq = Top.after_cond + 1 /\ FirstSlot.b = 1

C13_Witness ==
    /\ At("IfStatement", {10})
    /\ Top.node.consequence.statements = <<>>
    /\ Len(kstack) >= 3
    /\ Top.after_cond > 0
    /\ IsLine(FirstSlot, "abs", "JEQ")
    /\ IsLine(SecondSlot, "abs", "LDA")

\* The names a node leaves declared (the targets of its reads and assignments,
\* in source order), and whether every name a node uses in an expression or in
\* a write is declared by a statement that comes before the use.
RECURSIVE DeclaredAfter(_, _), DeclaredAfterAll(_, _), UsesDeclared(_, _),
          UsesDeclaredAll(_, _)
DeclaredAfter(node, known) ==
    CASE node.t \in {"Program", "BlockStatement"} -> DeclaredAfterAll(node.statements, known)
      [] node.t \in {"ReadStatement", "AssignStatement"} -> known \cup {node.name.value}
      [] node.t \in {"IfStatement", "RepeatStatement"} -> DeclaredAfter(node.consequence, known)
      [] OTHER -> known
DeclaredAfterAll(ss, known) ==
    IF ss = <<>> THEN known ELSE DeclaredAfterAll(Tail(ss), DeclaredAfter(Head(ss), known))
UsesDeclared(node, known) ==
    CASE node.t \in {"Program", "BlockStatement"} -> UsesDeclaredAll(node.statements, known)
      [] node.t = "ReadStatement" -> TRUE
      [] node.t = "WriteStatement" -> node.name.value \in known
      [] node.t = "AssignStatement" -> UsesDeclared(node.value, known)
      [] node.t = "IfStatement" ->
            UsesDeclared(node.cond, known) /\ UsesDeclared(node.consequence, known)
      [] node.t = "RepeatStatement" ->
            /\ UsesDeclared(node.consequence, known)
            /\ UsesDeclared(node.cond, DeclaredAfter(node.consequence, known))
      [] node.t = "InfixExpression" ->
            UsesDeclared(node.left, known) /\ UsesDeclared(node.right, known)
      [] node.t = "Identifier" -> node.value \in known
      [] OTHER -> TRUE
UsesDeclaredAll(ss, known) ==
    \/ ss = <<>>
    \/ /\ UsesDeclared(Head(ss), known)
       /\ UsesDeclaredAll(Tail(ss), DeclaredAfter(Head(ss), known))

DeclaredBeforeUse == UsesDeclared(program, {})

\* the LD or ST the step has written carries the offset the table holds for name
CarriesOffsetOf(op, target, name) ==
    /\ name \in DOMAIN table'
    /\ Written = Line(emit_loc, "rm", op, target, table'[name], GP)
    /\ 0 <= Written.b /\ Written.b < Cardinality(DOMAIN table')

\* each LD and ST with base GP carries the offset of its name, and compiling an
\* Identifier or a Write adds no name to the table
GlobalOffsets ==
    /\ At("Identifier", {0}) => CarriesOffsetOf("LD", AC, Top.node.value)
    /\ At("ReadStatement", {2}) \/ At("AssignStatement", {2}) =>
            CarriesOffsetOf("ST", AC, Top.node.name.value)
    /\ At("Identifier", {0}) \/ At("WriteStatement", {0, 1}) => table' = table
    /\ \A n \in DOMAIN table : n \in DOMAIN table' /\ table'[n] = table[n]
    /\ \A n1, n2 \in DOMAIN table' : n1 # n2 => table'[n1] # table'[n2]

\* C14: in a program where each name used in an expression or a write is the
\* target of an earlier read or assignment, every LD and ST with base GP
\* carries the offset the symbol table holds for its name (so 0 <= offset <
\* number of names, one offset per name, distinct names distinct offsets), and
\* compiling an Identifier or a Write adds no name to the table.
C14_OffsetsFromTable == [][DeclaredBeforeUse => GlobalOffsets]_vars

\* the same for the programs all of whose statements the generator translates
C14_TranslatedOffsetsFromTable ==
    [][DeclaredBeforeUse /\ ~HasUntranslated(program) => GlobalOffsets]_vars

\* C15: when compile of a Program has returned, no entry of the instruction
\* buffer is the empty placeholder of emit_skip, and the line at index i (from
\* 0) carries the address label i, whether emit_rm or emit_r0 appended it or
\* emit_rm_abs wrote it into a reserved slot.
C15_FilledAndLabelled ==
    cstatus = "done" =>
        \A i \in 1..Len(intermedia) :
            intermedia[i].kind # "empty" /\ intermedia[i].addr = i - 1

C15_Witness ==
    /\ cstatus = "done"
    /\ Len(intermedia) >= 10
    /\ \E i, j, k \in 1..Len(intermedia) :
            /\ i < j /\ j < k
            /\ intermedia[i].kind = "r0"
            /\ IsLine(intermedia[j], "abs", "JEQ")
            /\ IsLine(intermedia[k], "abs", "LDA")
            /\ k < Len(intermedia)

\* every token but Eof takes at least one character of the input, so the calls
\* that return have returned Eof once there are more of them than characters
EofWithinLength == lx_calls > Len(lx_input) => lx_tok.token_type = "Eof"

\* C16: every call of Lexer::next_token returns (it neither loops for ever nor
\* panics), and after finitely many calls, at most one more than the input has
\* characters, the token returned is the end-of-input token; the input may be
\* empty, end in `:` or hold a string literal that is never closed.
C16_CallsReturnAndReachEof == lx_status = "run" /\ EofWithinLength

\* the same for the calls that return
C16_ReturnedCallsReachEof == lx_status = "run" => EofWithinLength

====
